---------------------------- MODULE Spec2Model ----------------------------
(***************************************************************************)
(* PackBuffer (src/src/pub/PackBuffer.hpp): a non-owning view over a       *)
(* caller-supplied byte region, a Context (cursor) that tracks the write   *)
(* pointer and the bytes used, and one DelegatePackBuffer<T> strategy per  *)
(* value type that computes getTypeSize(v) and writes v through the        *)
(* Context.                                                                *)
(*                                                                         *)
(* Platform modelled: LP64, little-endian, libstdc++, built with           *)
(* exceptions (__cpp_exceptions defined).  Pointers are offsets from the   *)
(* base pointer p_buf_.  The two integer widths the code mixes, size_t     *)
(* (64 bits) and uint32_t/int (32 bits), are kept as two distinct widths   *)
(* with uint32_t half as wide as size_t, scaled to SizeTBits and           *)
(* Uint32Bits so that both wrap-arounds are within reach of model checking. *)
(***************************************************************************)
EXTENDS Integers, Sequences, FiniteSets, TLC

VARIABLES
    buf_size_,   \* Context::buf_size_   (capacity given at construction)
    alignment_,  \* Context::alignment_  (alignment quantum)
    p_msg_,      \* Context::p_msg_      (write pointer, as offset from p_buf_)
    msg_size_,   \* Context::msg_size_   (bytes used so far)
    mem,         \* the caller's byte region, mem[i] = byte at p_buf_ + i
    last,        \* the last call made and what it returned
    nops,        \* number of calls made so far
    peer         \* a second PackBuffer over its own byte region

vars == <<buf_size_, alignment_, p_msg_, msg_size_, mem, last, nops, peer>>

---------------------------------------------------------------------------
(* Bounds of the model *)

SizeTBits == 16
Uint32Bits == 8
MaxOps == 3
MaxBulkOps == 4
MaxCtxOps == 3
MaxDetOps == 2
MaxSeqOps == 2
UnboundedRegion == 16

SizeTMod == 2 ^ SizeTBits
Uint32Mod == 2 ^ Uint32Bits
SizeMax == SizeTMod - 1

\* conversion to size_t / uint32_t: reduction modulo 2^width
ToSizeT(x) == x % SizeTMod
ToUint32(x) == x % Uint32Mod
\* conversion to int: two's complement of the uint32_t width
ToInt(x) == LET u == x % Uint32Mod IN IF u >= Uint32Mod \div 2 THEN u - Uint32Mod ELSE u

p_buf_ == 0
SizeofSizeT == 8
SizeofStdString == 32

\* AlignMemory: the enumeration of quantum sizes
AlignMemory == {1, 2, 4, 8}

Max(a, b) == IF a >= b THEN a ELSE b

---------------------------------------------------------------------------
(* Context *)

\* The running state of one call: the Context fields, the byte region and
\* the bookkeeping of the call (exc: out_of_range is propagating; ret: the
\* value returned by the put that ended last; rej: some nested put returned
\* false; top: one past the highest offset a copy stored to, 0 if none).
MkState(bs, al, p, ms, m) ==
    [buf_size |-> bs, alignment |-> al, p_msg |-> p, msg_size |-> ms, mem |-> m,
     exc |-> FALSE, ret |-> FALSE, rej |-> FALSE, top |-> 0]

getAlignedSize(al, size) ==
    LET kAlignedMemChunk == ToUint32(al)
        kNumChunks == ToUint32(ToSizeT((size \div kAlignedMemChunk)
                          + (IF size % kAlignedMemChunk = 0 THEN 0 ELSE 1)))
    IN  ToUint32(kNumChunks * kAlignedMemChunk)

\* Context::operator+=
AddAssign(S, size) ==
    IF S.exc THEN S
    ELSE IF S.buf_size < ToSizeT(S.msg_size + size)
    THEN [S EXCEPT !.exc = TRUE]
    ELSE LET kAlignedSize == getAlignedSize(S.alignment, size)
         IN  [S EXCEPT !.p_msg = ToSizeT(@ + kAlignedSize),
                       !.msg_size = ToSizeT(@ + kAlignedSize)]

\* Context::operator-=
SubAssign(S, size) ==
    IF S.exc THEN S
    ELSE IF S.msg_size < size
    THEN [S EXCEPT !.exc = TRUE]
    ELSE LET kAlignedSize == getAlignedSize(S.alignment, size)
         IN  [S EXCEPT !.p_msg = ToSizeT(@ - kAlignedSize),
                       !.msg_size = ToSizeT(@ - kAlignedSize)]

\* Context::buffer_size
buffer_size(S) == ToSizeT(S.buf_size - S.msg_size)

\* std::copy(first, first + Len(bytes), _ctx.buffer()).  A store past the
\* end of the caller's region lands in whatever lies behind it: the region
\* keeps its bytes and top records how far the store reached
Copy(S, bytes) ==
    IF S.exc \/ Len(bytes) = 0 THEN S
    ELSE [S EXCEPT
           !.mem = [i \in DOMAIN S.mem |->
                      IF i >= S.p_msg /\ i < S.p_msg + Len(bytes)
                      THEN bytes[i - S.p_msg + 1] ELSE S.mem[i]],
           !.top = Max(@, S.p_msg + Len(bytes))]

---------------------------------------------------------------------------
(* Values handed to put.  kind is the static type that selects the          *)
(* DelegatePackBuffer specialization; w is sizeof(T) of a trivial element   *)
(* type (0 when the element type is not trivial); b holds the bytes of a    *)
(* scalar's object representation or the characters of a string; e holds    *)
(* the elements (of a pair: first and second; of a map: its pairs).  For    *)
(* std::set and std::map e is the order of insertion, for the unordered     *)
(* containers it is the order the hash table iterates in.                   *)

Val(k, w, b, e) == [kind |-> k, w |-> w, b |-> b, e |-> e]

Scalar(bytes) == Val("scalar", Len(bytes), bytes, <<>>)
U8(x) == Scalar(<<x>>)
I32(x) == Scalar(<<x, 0, 0, 0>>)
CStr(chars) == Val("cstr", 0, chars, <<>>)
NullCStr == Val("cstr_null", 0, <<>>, <<>>)
Str(chars) == Val("string", 0, chars, <<>>)
PtrLen(w, elems) == Val("ptrlen", w, <<>>, elems)
NullPtrLen(w) == Val("ptrlen_null", w, <<>>, <<>>)
Vector(w, elems) == Val("vector", w, <<>>, elems)
List(w, elems) == Val("list", w, <<>>, elems)
StdSet(w, elems) == Val("set", w, <<>>, elems)
USet(w, elems) == Val("unordered_set", w, <<>>, elems)
Pair(f, s) == Val("pair", 0, <<>>, <<f, s>>)
StdMap(entries) == Val("map", 0, <<>>, entries)
UMap(entries) == Val("unordered_map", 0, <<>>, entries)

Containers == {"vector", "list", "set", "unordered_set", "map", "unordered_map"}

\* a byte of an object representation that the language leaves unspecified
Indeterminate == -1

\* the object representation of a size_t count
CountBytes(n) == <<n % 256, (n \div 256) % 256, 0, 0, 0, 0, 0, 0>>

\* the object representations of n elements of width w, one after another
Flatten(elems, w) ==
    [i \in 1..(w * Len(elems)) |-> elems[((i - 1) \div w) + 1].b[((i - 1) % w) + 1]]

\* std::less on keys: numeric for a one-byte key, lexicographic for strings
RECURSIVE LexLess(_, _)
LexLess(a, b) ==
    IF b = <<>> THEN FALSE
    ELSE IF a = <<>> THEN TRUE
    ELSE IF a[1] # b[1] THEN a[1] < b[1]
    ELSE LexLess(Tail(a), Tail(b))

Key(v) == IF v.kind = "pair" THEN v.e[1].b ELSE v.b

RECURSIVE InsertSorted(_, _)
InsertSorted(x, s) ==
    IF s = <<>> THEN <<x>>
    ELSE IF Key(x) = Key(s[1]) THEN s
    ELSE IF LexLess(Key(x), Key(s[1])) THEN <<x>> \o s
    ELSE <<s[1]>> \o InsertSorted(x, Tail(s))

\* the content of a std::set / std::map after inserting s[1], s[2], ...
RECURSIVE Ordered(_)
Ordered(s) ==
    IF s = <<>> THEN <<>> ELSE InsertSorted(s[Len(s)], Ordered(SubSeq(s, 1, Len(s) - 1)))

\* the sequence a range-for over the container visits
Iterate(v) == IF v.kind \in {"set", "map"} THEN Ordered(v.e) ELSE v.e

size(v) == Len(Iterate(v))

\* std::is_trivial of the key and mapped type of an unordered_map
TrivialEntries(v) ==
    \A i \in 1..Len(v.e) : v.e[i].e[1].kind = "scalar" /\ v.e[i].e[2].kind = "scalar"

---------------------------------------------------------------------------
(* DelegatePackBuffer<T>::getTypeSize *)

\* In the std::map specialization the closed-form overload is declared for
\* std::unordered_map arguments, so it never applies to a std::map: only a
\* map whose key or mapped type is not trivial has a getTypeSize, the
\* element-wise sum.
RECURSIVE getTypeSize(_)
RECURSIVE SumTypeSize(_)
SumTypeSize(elems) ==
    IF elems = <<>> THEN 0
    ELSE ToSizeT(getTypeSize(elems[1]) + SumTypeSize(Tail(elems)))

getTypeSize(v) ==
    CASE v.kind = "scalar" -> v.w
      [] v.kind = "cstr" -> ToSizeT(Len(v.b) + 1)
      [] v.kind = "string" -> ToSizeT(Len(v.b) + 1)
      [] v.kind \in {"ptrlen", "ptrlen_null"} -> ToSizeT(SizeofSizeT + v.w * Len(v.e))
      [] v.kind \in {"vector", "list", "set", "unordered_set"} ->
            IF v.w > 0
            THEN ToSizeT(SizeofSizeT + v.w * size(v))
            ELSE ToSizeT(SizeofSizeT + SumTypeSize(Iterate(v)))
      [] v.kind = "pair" -> ToSizeT(getTypeSize(v.e[1]) + getTypeSize(v.e[2]))
      [] v.kind = "map" -> ToSizeT(SizeofSizeT + SumTypeSize(Iterate(v)))
      [] v.kind = "unordered_map" ->
            IF v.e = <<>> THEN SizeofSizeT
            ELSE IF TrivialEntries(v)
            THEN ToSizeT(SizeofSizeT
                          + (getTypeSize(v.e[1].e[1]) + getTypeSize(v.e[1].e[2])) * size(v))
            ELSE ToSizeT(SizeofSizeT + SumTypeSize(Iterate(v)))
      [] OTHER -> 0

---------------------------------------------------------------------------
(* DelegatePackBuffer<T>::put.  Each takes the running state and returns   *)
(* the state after the call; ret holds the value the call returned.        *)

Return(S, r) == IF S.exc THEN S ELSE [S EXCEPT !.ret = r]

\* a put called from inside another put: its result is discarded by the
\* caller; rej records that it was false
Discard(R) == IF R.exc THEN R ELSE [R EXCEPT !.rej = @ \/ ~R.ret]

\* DelegatePackBuffer<T>::put(_ctx, const T &) for a trivial T whose object
\* representation is bytes
PutTrivial(S, bytes) ==
    IF S.exc THEN S
    ELSE IF Len(bytes) <= buffer_size(S)
    THEN Return(AddAssign(Copy(S, bytes), Len(bytes)), TRUE)
    ELSE Return(S, FALSE)

\* PutPtrLen with the length field written before the size is checked
PutPtrLenCountFirst(S, v) ==
    IF S.exc THEN S
    ELSE LET S1 == Discard(PutTrivial(S, CountBytes(Len(v.e))))
         IN  IF v.kind # "ptrlen_null" /\ ToSizeT(v.w * Len(v.e)) <= buffer_size(S1)
             THEN Return(AddAssign(Copy(S1, Flatten(v.e, v.w)), ToSizeT(v.w * Len(v.e))), TRUE)
             ELSE Return(S1, FALSE)

\* DelegatePackBuffer<T>::put(_ctx, const T * _buffer, _dataLen)
PutPtrLen(S, v) ==
    IF S.exc THEN S
    ELSE IF v.kind # "ptrlen_null" /\ getTypeSize(v) <= buffer_size(S)
    THEN LET S1 == Discard(PutTrivial(S, CountBytes(Len(v.e))))
             S2 == Copy(S1, Flatten(v.e, v.w))
         IN  Return(AddAssign(S2, ToSizeT(v.w * Len(v.e))), TRUE)
    ELSE Return(S, FALSE)

\* DelegatePackBuffer<char*>::put
PutCStr(S, v) ==
    IF S.exc THEN S
    ELSE IF v.kind # "cstr_null"
    THEN LET kCStringLen == ToInt(getTypeSize(v))
         IN  IF ToSizeT(kCStringLen) <= buffer_size(S)
             THEN Return(AddAssign(Copy(S, v.b \o <<0>>), ToSizeT(kCStringLen)), TRUE)
             ELSE Return(S, FALSE)
    ELSE Return(S, FALSE)

\* DelegatePackBuffer<std::string>::put
PutString(S, v) ==
    IF S.exc THEN S
    ELSE LET kCStringLen == ToInt(getTypeSize(v))
         IN  IF ToSizeT(kCStringLen) <= buffer_size(S)
             THEN Return(AddAssign(Copy(S, v.b \o <<0>>), ToSizeT(kCStringLen)), TRUE)
             ELSE Return(S, FALSE)

\* sizeof(T) of the element type of a vector
SizeofElem(v) == IF v.w > 0 THEN v.w ELSE SizeofStdString

\* what std::copy(_vec.data(), _vec.data() + _vec.size(), (T*)buffer) stores:
\* the elements' object representations; for a T that is not trivial these
\* are not the elements' encodings and their bytes are unspecified
VectorImage(v) ==
    IF v.w > 0 THEN Flatten(v.e, v.w)
    ELSE [i \in 1..(SizeofElem(v) * Len(v.e)) |-> Indeterminate]

\* PutVector without the test for an empty vector
PutVectorNoEmptyCheck(S, v) ==
    IF S.exc THEN S
    ELSE IF getTypeSize(v) <= buffer_size(S)
    THEN LET S1 == Discard(PutTrivial(S, CountBytes(size(v))))
             S2 == Copy(S1, VectorImage(v))
         IN  Return(AddAssign(S2, ToSizeT(size(v) * SizeofElem(v))), TRUE)
    ELSE Return(S, FALSE)

\* DelegatePackBuffer<std::vector<T>>::put
PutVector(S, v) ==
    IF S.exc THEN S
    ELSE IF size(v) > 0
    THEN IF getTypeSize(v) <= buffer_size(S)
         THEN LET S1 == Discard(PutTrivial(S, CountBytes(size(v))))
                  S2 == Copy(S1, VectorImage(v))
              IN  Return(AddAssign(S2, ToSizeT(size(v) * SizeofElem(v))), TRUE)
         ELSE Return(S, FALSE)
    ELSE Return(S, FALSE)

RECURSIVE PutValue(_, _)

\* for (ve : container) DelegatePackBuffer<T>{}.put(_ctx, ve);
RECURSIVE PutEach(_, _)
PutEach(S, elems) ==
    IF elems = <<>> THEN S
    ELSE PutEach(Discard(PutValue(S, elems[1])), Tail(elems))

\* for (ve : map) { put(_ctx, ve.first); put(_ctx, ve.second); }
RECURSIVE PutEntries(_, _)
PutEntries(S, entries) ==
    IF entries = <<>> THEN S
    ELSE LET S1 == Discard(PutValue(S, entries[1].e[1]))
             S2 == Discard(PutValue(S1, entries[1].e[2]))
         IN  PutEntries(S2, Tail(entries))

\* DelegatePackBuffer<std::list<T>>::put
PutList(S, v) ==
    IF S.exc THEN S
    ELSE IF size(v) > 0
    THEN IF getTypeSize(v) <= buffer_size(S)
         THEN LET S1 == Discard(PutTrivial(S, CountBytes(size(v))))
              IN  Return(PutEach(S1, Iterate(v)), TRUE)
         ELSE Return(S, FALSE)
    ELSE Return(S, FALSE)

\* DelegatePackBuffer<std::set<K>>::put
PutSet(S, v) ==
    IF S.exc THEN S
    ELSE IF size(v) > 0
    THEN IF getTypeSize(v) <= buffer_size(S)
         THEN LET S1 == Discard(PutTrivial(S, CountBytes(size(v))))
              IN  Return(PutEach(S1, Iterate(v)), TRUE)
         ELSE Return(S, FALSE)
    ELSE Return(S, FALSE)

\* DelegatePackBuffer<std::pair<K, V>>::put
PutPair(S, v) ==
    IF S.exc THEN S
    ELSE IF getTypeSize(v) <= buffer_size(S)
    THEN LET S1 == Discard(PutValue(S, v.e[1]))
             S2 == Discard(PutValue(S1, v.e[2]))
         IN  Return(S2, TRUE)
    ELSE Return(S, FALSE)

\* DelegatePackBuffer<std::map<K, V>>::put
PutMap(S, v) ==
    IF S.exc THEN S
    ELSE IF size(v) > 0
    THEN IF getTypeSize(v) <= buffer_size(S)
         THEN LET S1 == Discard(PutTrivial(S, CountBytes(size(v))))
              IN  Return(PutEntries(S1, Iterate(v)), TRUE)
         ELSE Return(S, FALSE)
    ELSE Return(S, FALSE)

\* DelegatePackBuffer<std::unordered_set<K>>::put
PutUnorderedSet(S, v) ==
    IF S.exc THEN S
    ELSE IF size(v) > 0
    THEN IF getTypeSize(v) <= buffer_size(S)
         THEN LET S1 == Discard(PutTrivial(S, CountBytes(size(v))))
              IN  Return(PutEach(S1, Iterate(v)), TRUE)
         ELSE Return(S, FALSE)
    ELSE Return(S, FALSE)

\* DelegatePackBuffer<std::unordered_map<K, V>>::put
PutUnorderedMap(S, v) ==
    IF S.exc THEN S
    ELSE IF size(v) > 0
    THEN IF getTypeSize(v) <= buffer_size(S)
         THEN LET S1 == Discard(PutTrivial(S, CountBytes(size(v))))
              IN  Return(PutEntries(S1, Iterate(v)), TRUE)
         ELSE Return(S, FALSE)
    ELSE Return(S, FALSE)

\* PackBuffer::put: the specialization is selected by the static type
PutValue(S, v) ==
    CASE v.kind = "scalar" -> PutTrivial(S, v.b)
      [] v.kind \in {"cstr", "cstr_null"} -> PutCStr(S, v)
      [] v.kind = "string" -> PutString(S, v)
      [] v.kind \in {"ptrlen", "ptrlen_null"} -> PutPtrLen(S, v)
      [] v.kind = "vector" -> PutVector(S, v)
      [] v.kind = "list" -> PutList(S, v)
      [] v.kind = "set" -> PutSet(S, v)
      [] v.kind = "pair" -> PutPair(S, v)
      [] v.kind = "map" -> PutMap(S, v)
      [] v.kind = "unordered_set" -> PutUnorderedSet(S, v)
      [] v.kind = "unordered_map" -> PutUnorderedMap(S, v)

---------------------------------------------------------------------------
(* The values, capacities and byte regions the calls are made with *)

\* capacities handed to PackBuffer(_pMsg, size, _alignment)
Capacities == {6, 12, 16, 24}

\* what the caller's byte region holds before the first put
Fills == {0, 255}

Region(n, fill) == [i \in 0..(n - 1) |-> fill]

Values ==
    { U8(1), I32(7),
      CStr(<<104, 105>>), NullCStr,
      Str(<<97>>), Str(<<>>),
      PtrLen(1, <<U8(1), U8(2), U8(3)>>), NullPtrLen(1),
      Vector(1, <<U8(1), U8(2), U8(3)>>), Vector(4, <<I32(7)>>), Vector(4, <<>>),
      Vector(0, <<Str(<<97>>)>>),
      List(1, <<U8(1), U8(2), U8(3)>>), List(0, <<Str(<<97>>), Str(<<98>>)>>), List(1, <<>>),
      StdSet(1, <<U8(2), U8(1)>>), StdSet(1, <<>>),
      USet(1, <<U8(2), U8(1)>>), USet(1, <<>>),
      Pair(U8(1), U8(2)), Pair(U8(1), Str(<<97>>)),
      StdMap(<<Pair(U8(2), Str(<<98>>)), Pair(U8(1), Str(<<97>>))>>), StdMap(<<>>),
      UMap(<<Pair(U8(1), U8(2))>>), UMap(<<>>) }

NoValue == Val("none", 0, <<>>, <<>>)

\* the PackBuffer as the running state of a call
Now == MkState(buf_size_, alignment_, p_msg_, msg_size_, mem)

Outcome(R) == IF R.exc THEN "throw" ELSE IF R.ret THEN "true" ELSE "false"

\* the record of a call: what was called with what, from which cursor and
\* bytes, and how it ended
Called(op, v, n, R) ==
    [op |-> op, v |-> v, n |-> n, ret |-> IF op = "put" THEN Outcome(R)
                                           ELSE IF R.exc THEN "throw" ELSE "void",
     pre_msg |-> msg_size_, pre_p |-> p_msg_, pre_mem |-> mem,
     rej |-> R.rej, top |-> R.top]

Install(R) ==
    /\ p_msg_' = R.p_msg
    /\ msg_size_' = R.msg_size
    /\ mem' = R.mem
    /\ UNCHANGED <<buf_size_, alignment_>>

NoPeer == MkState(0, 1, 0, 0, <<>>)

Fresh(op) == [op |-> op, v |-> NoValue, n |-> 0, ret |-> "void",
              pre_msg |-> 0, pre_p |-> p_buf_, pre_mem |-> <<>>, rej |-> FALSE, top |-> 0]

---------------------------------------------------------------------------
(* PackBuffer: construction, put and reset *)

\* PackBuffer(_pMsg, size, _alignment)
Construct(cap, al, fill) ==
    /\ buf_size_ = cap
    /\ alignment_ = al
    /\ p_msg_ = p_buf_
    /\ msg_size_ = 0
    /\ mem = Region(cap, fill)
    /\ last = Fresh("construct")
    /\ nops = 0

Init ==
    /\ \E cap \in Capacities, al \in AlignMemory, fill \in Fills : Construct(cap, al, fill)
    /\ peer = NoPeer

\* PackBuffer(_pMsg, _alignment): the capacity is numeric_limits<size_t>::max()
\* whatever the size of the caller's region
ConstructUnbounded(al, fill) ==
    /\ buf_size_ = SizeMax
    /\ alignment_ = al
    /\ p_msg_ = p_buf_
    /\ msg_size_ = 0
    /\ mem = Region(UnboundedRegion, fill)
    /\ last = Fresh("construct")
    /\ nops = 0

\* bool PackBuffer::put(const T & _t), put(const T * _buffer, size_t dataLen)
Put(v) ==
    /\ nops < MaxOps
    /\ LET R == PutValue(Now, v)
       IN  /\ Install(R)
           /\ last' = Called("put", v, 0, R)
    /\ nops' = nops + 1
    /\ UNCHANGED peer

\* void PackBuffer::reset()
Reset ==
    /\ nops < MaxOps
    /\ LET R == SubAssign(Now, msg_size_)
       IN  /\ Install(R)
           /\ last' = Called("reset", NoValue, 0, R)
    /\ nops' = nops + 1
    /\ UNCHANGED peer

Next ==
    \/ \E v \in Values : Put(v)
    \/ Reset

Spec == Init /\ [][Next]_vars

---------------------------------------------------------------------------
(* Large buffers: the same put and reset on a capacity beyond the range of  *)
(* uint32_t, filled by a few large values                                   *)

BulkCapacity == 3 * Uint32Mod

Blob(n) == [i \in 1..n |-> U8(1)]

BulkValues == { PtrLen(1, Blob(Uint32Mod \div 2)),
                Vector(1, Blob(Uint32Mod \div 4)),
                I32(7) }

InitBulk ==
    /\ \E al \in AlignMemory : Construct(BulkCapacity, al, 0)
    /\ peer = NoPeer

\* put of a large value
PutBulk(v) ==
    /\ nops < MaxBulkOps
    /\ LET R == PutValue(Now, v)
       IN  /\ Install(R)
           /\ last' = Called("put", v, 0, R)
    /\ nops' = nops + 1
    /\ UNCHANGED peer

\* reset of a large buffer
ResetBulk ==
    /\ nops < MaxBulkOps
    /\ LET R == SubAssign(Now, msg_size_)
       IN  /\ Install(R)
           /\ last' = Called("reset", NoValue, 0, R)
    /\ nops' = nops + 1
    /\ UNCHANGED peer

NextBulk ==
    \/ \E v \in BulkValues : PutBulk(v)
    \/ ResetBulk

SpecBulk == InitBulk /\ [][NextBulk]_vars

---------------------------------------------------------------------------
(* The Context used directly, as a custom DelegatePackBuffer<T> receives    *)
(* it: operator+= and operator-= with sizes of the caller's choice          *)

CtxCapacities == {6, 16}

CtxSizes == {0, 1, 2, 3, 4, 5, 8}

InitCtx ==
    /\ \E cap \in CtxCapacities, al \in AlignMemory, fill \in Fills : Construct(cap, al, fill)
    /\ peer = NoPeer

\* _ctx += n
Advance(n) ==
    /\ nops < MaxCtxOps
    /\ LET R == AddAssign(Now, n)
       IN  /\ Install(R)
           /\ last' = Called("advance", NoValue, n, R)
    /\ nops' = nops + 1
    /\ UNCHANGED peer

\* _ctx -= n
Retreat(n) ==
    /\ nops < MaxCtxOps
    /\ LET R == SubAssign(Now, n)
       IN  /\ Install(R)
           /\ last' = Called("retreat", NoValue, n, R)
    /\ nops' = nops + 1
    /\ UNCHANGED peer

NextCtx ==
    \/ \E n \in CtxSizes : Advance(n)
    \/ \E n \in CtxSizes : Retreat(n)

SpecCtx == InitCtx /\ [][NextCtx]_vars

\* the same on capacities and sizes beyond the range of uint32_t, the
\* one-argument constructor's capacity included
WideCapacities == {2 * Uint32Mod, 3 * Uint32Mod}

WideSizes == {1, 4, 5, Uint32Mod - 1, Uint32Mod, Uint32Mod + 1, 2 * Uint32Mod, SizeMax}

InitWide ==
    /\ \E al \in AlignMemory, fill \in Fills :
          \/ \E cap \in WideCapacities : Construct(cap, al, fill)
          \/ ConstructUnbounded(al, fill)
    /\ peer = NoPeer

NextWide ==
    \/ \E n \in WideSizes : Advance(n)
    \/ \E n \in WideSizes : Retreat(n)

SpecWide == InitWide /\ [][NextWide]_vars

---------------------------------------------------------------------------
(* Two PackBuffers of the same capacity and quantum over regions that hold  *)
(* different bytes, packing std::set / std::map values of the same content  *)
(* built by different orders of insertion                                   *)

TwinCapacities == {16, 24, 40}

OrderedValues ==
    { StdSet(1, <<U8(2), U8(1)>>), StdSet(1, <<U8(1), U8(2)>>),
      StdSet(1, <<U8(3), U8(1), U8(2)>>), StdSet(1, <<U8(2), U8(3), U8(1)>>),
      StdSet(0, <<Str(<<98>>), Str(<<97>>)>>), StdSet(0, <<Str(<<97>>), Str(<<98>>)>>),
      StdMap(<<Pair(U8(2), Str(<<98>>)), Pair(U8(1), Str(<<97>>))>>),
      StdMap(<<Pair(U8(1), Str(<<97>>)), Pair(U8(2), Str(<<98>>))>>) }

\* two containers of one type with the same content
Twins ==
    { t \in OrderedValues \X OrderedValues :
        /\ t[1].kind = t[2].kind
        /\ t[1].w = t[2].w
        /\ Ordered(t[1].e) = Ordered(t[2].e) }

InitDet ==
    \E cap \in TwinCapacities, al \in AlignMemory, fa \in Fills, fb \in Fills :
        /\ Construct(cap, al, fa)
        /\ peer = MkState(cap, al, p_buf_, 0, Region(cap, fb))

Entering(S) == [S EXCEPT !.exc = FALSE, !.ret = FALSE, !.rej = FALSE, !.top = 0]

\* a.put(va); b.put(vb);
PutBoth(va, vb) ==
    /\ nops < MaxDetOps
    /\ LET R == PutValue(Now, va)
       IN  /\ Install(R)
           /\ last' = Called("put", va, 0, R)
    /\ peer' = PutValue(Entering(peer), vb)
    /\ nops' = nops + 1

\* a.reset(); b.reset();
ResetBoth ==
    /\ nops < MaxDetOps
    /\ LET R == SubAssign(Now, msg_size_)
       IN  /\ Install(R)
           /\ last' = Called("reset", NoValue, 0, R)
    /\ peer' = SubAssign(Entering(peer), peer.msg_size)
    /\ nops' = nops + 1

NextDet ==
    \/ \E t \in Twins : PutBoth(t[1], t[2])
    \/ ResetBoth

SpecDet == InitDet /\ [][NextDet]_vars

---------------------------------------------------------------------------
(* Sequences: put and reset with std::vector and std::list values of        *)
(* scalars and of strings, on buffers with room for them                    *)

SeqCapacities == {48, 80}

SeqValues ==
    { Vector(0, <<Str(<<97>>)>>), Vector(0, <<Str(<<97>>), Str(<<98, 99>>)>>),
      List(0, <<Str(<<97>>)>>), List(0, <<Str(<<97>>), Str(<<98, 99>>)>>),
      Vector(4, <<I32(7), I32(9)>>), List(4, <<I32(7), I32(9)>>),
      Vector(1, <<U8(1), U8(2), U8(3)>>), List(1, <<U8(1), U8(2), U8(3)>>) }

InitSeq ==
    /\ \E cap \in SeqCapacities, al \in AlignMemory, fill \in Fills : Construct(cap, al, fill)
    /\ peer = NoPeer

\* put of a sequence
PutSeq(v) ==
    /\ nops < MaxSeqOps
    /\ LET R == PutValue(Now, v)
       IN  /\ Install(R)
           /\ last' = Called("put", v, 0, R)
    /\ nops' = nops + 1
    /\ UNCHANGED peer

\* reset between sequences
ResetSeq ==
    /\ nops < MaxSeqOps
    /\ LET R == SubAssign(Now, msg_size_)
       IN  /\ Install(R)
           /\ last' = Called("reset", NoValue, 0, R)
    /\ nops' = nops + 1
    /\ UNCHANGED peer

NextSeq ==
    \/ \E v \in SeqValues : PutSeq(v)
    \/ ResetSeq

SpecSeq == InitSeq /\ [][NextSeq]_vars

---------------------------------------------------------------------------
(* Properties *)

\* n rounded up to the next multiple of q, in the integers
RoundUp(n, q) == ((n + q - 1) \div q) * q

\* the cursor, the write pointer and the bytes are what they were before the
\* last call
Untouched ==
    /\ msg_size_ = last.pre_msg
    /\ p_msg_ = last.pre_p
    /\ mem = last.pre_mem

\* C1: in every state reached by put and reset the cursor offset stays
\* within the capacity: 0 <= getDataSize() <= capacity.
C1_OffsetWithinCapacity ==
    0 <= msg_size_ /\ msg_size_ <= buf_size_

\* C2: whenever put(v) returns true, getDataSize() has grown by exactly
\* getTypeSize(v).
C2_AdvanceEqualsTypeSize ==
    (last.op = "put" /\ last.ret = "true")
        => msg_size_ - last.pre_msg = getTypeSize(last.v)

\* C3: a put that returns false because getTypeSize(v) exceeds the remaining
\* capacity leaves getDataSize(), getBufferSize(), the write pointer and the
\* bytes of the buffer as they were.
C3_NoPartialWrite ==
    (/\ last.op = "put"
     /\ last.ret = "false"
     /\ getTypeSize(last.v) > ToSizeT(buf_size_ - last.pre_msg))
        => Untouched /\ last.top = 0

\* C3 happens: a non-empty list was rejected for lack of room on a buffer
\* that already holds data.
C3_Witness ==
    /\ last.op = "put"
    /\ last.ret = "false"
    /\ last.v.kind = "list"
    /\ last.v.e # <<>>
    /\ last.pre_msg > 0
    /\ last.pre_msg <= buf_size_
    /\ getTypeSize(last.v) > buf_size_ - last.pre_msg

\* C4: put returns true only if the count and every nested element, key and
\* value write was accepted.
C4_TrueMeansFullyWritten ==
    (last.op = "put" /\ last.ret = "true") => ~last.rej

\* C5: a put whose computed size exceeds capacity minus offset returns false
\* with the cursor unchanged, and no call of put or reset ends in
\* out_of_range.
C5_SoftCapacityFailure ==
    /\ last.op \in {"put", "reset"} => last.ret # "throw"
    /\ (last.op = "put" /\ getTypeSize(last.v) > buf_size_ - last.pre_msg)
          => (last.ret = "false" /\ Untouched)

\* C6: with a = n rounded up to the quantum, _ctx += n fails and leaves the
\* offset unchanged when offset + a > capacity, and otherwise moves offset
\* and write pointer forward by a.
C6_AdvanceContract ==
    last.op = "advance" =>
        LET a == RoundUp(last.n, alignment_)
        IN  IF last.pre_msg + a > buf_size_
            THEN last.ret = "throw" /\ msg_size_ = last.pre_msg
            ELSE /\ last.ret = "void"
                 /\ msg_size_ = last.pre_msg + a
                 /\ p_msg_ = last.pre_p + a

\* C7: an accepted advance by n moves the offset by exactly
\* ceil(n / q) * q, for every n of size_t.
C7_AlignmentRounding ==
    (last.op = "advance" /\ last.ret = "void")
        => msg_size_ - last.pre_msg = RoundUp(last.n, alignment_)

\* C8: right after reset() getDataSize() is 0, getBufferSize() is the
\* capacity and the write pointer is the base pointer.
C8_ResetReturnsToZero ==
    last.op = "reset" =>
        /\ msg_size_ = 0
        /\ buffer_size(Now) = buf_size_
        /\ p_msg_ = p_buf_

\* C9: put of an empty vector, list, set, unordered_set, map or
\* unordered_map returns false and stores nothing, whatever room is left.
C9_EmptyContainerOmitted ==
    (last.op = "put" /\ last.v.kind \in Containers /\ last.v.e = <<>>)
        => (last.ret = "false" /\ Untouched /\ last.top = 0)

\* C9 happens: an empty container was put where a count would have fitted.
C9_Witness ==
    /\ last.op = "put"
    /\ last.v.kind = "vector"
    /\ last.v.e = <<>>
    /\ msg_size_ <= buf_size_
    /\ buf_size_ - msg_size_ >= SizeofSizeT
    /\ last.ret = "false"

\* C10: two buffers of the same capacity and quantum that packed std::set /
\* std::map values of the same content hold the same getDataSize() and the
\* same bytes over [0, getDataSize()), whatever they held before.
C10_OrderedDeterminism ==
    (last.op = "put" /\ peer.buf_size = buf_size_ /\ peer.alignment = alignment_)
        => /\ msg_size_ = peer.msg_size
           /\ \A i \in DOMAIN mem : i < msg_size_ => mem[i] = peer.mem[i]


\* the PackBuffer as it was when the last call was made
Before == MkState(buf_size_, alignment_, last.pre_p, last.pre_msg, last.pre_mem)

\* the count, then each element written by its own type's put, in
\* iteration order
ByElements(S, v) == PutEach(Discard(PutTrivial(S, CountBytes(size(v)))), Iterate(v))

\* C11: a put of a vector or list that returns true has written the count
\* and then each element through the element type's own put, in iteration
\* order: the bytes and the cursor are those of the per-element writes, and
\* for elements that are not scalars the advance agrees with
\* sizeof(count) + the sum of the elements' getTypeSize (equal to it when
\* the quantum is 1).
C11_SequenceByElementStrategy ==
    (last.op = "put" /\ last.ret = "true" /\ last.v.kind \in {"vector", "list"})
        => /\ msg_size_ = ByElements(Before, last.v).msg_size
           /\ p_msg_ = ByElements(Before, last.v).p_msg
           /\ mem = ByElements(Before, last.v).mem
           /\ (last.v.w = 0 /\ alignment_ = 1)
                 => msg_size_ - last.pre_msg = getTypeSize(last.v)

\* C12: every byte a put copies into a buffer constructed with an explicit
\* capacity is stored at an offset in [0, capacity): no put stores at or
\* beyond base + capacity.
C12_StoresWithinCapacity ==
    last.op = "put" => last.top <= buf_size_

===========================================================================
